---- MODULE Spec2Model ----
(***************************************************************************)
(* Model of the TikTok relay bot in src/main.go: the token cache           *)
(* (linkCache), the update handlers that use it (handlerInline,            *)
(* handlerMessage, handleStartPayload, sendTikTok) and the string          *)
(* conversions between them (randomToken, the deep link, the /start        *)
(* payload).  Strings are sequences of one-character strings.              *)
(***************************************************************************)
EXTENDS Integers, Sequences, FiniteSets, TLC

(***************************************************************************)
(* Bounds of the model.                                                    *)
(***************************************************************************)
\* the clock stops advancing at MaxTime
MaxTime == 20
\* number of inline queries the bot is handed
MaxInline == 2
\* number of messages the bot is handed
MaxMessages == 1
\* longest image list sendPhotoGroups is followed on
MaxPhotos == 23
\* longest image list makeVideo is followed on
MaxImages == 2
\* pieces a pipe holds before a write blocks
PipeCap == 1
\* most images and longest duration the frame rate is computed for
MaxFrames == 5
MaxDuration == 10

\* handler goroutines that run concurrently (one per update in flight)
Procs == {"g1", "g2"}
ProcOrder == [p \in Procs |-> IF p = "g1" THEN 1 ELSE 2]

(***************************************************************************)
(* Program constants.                                                      *)
(***************************************************************************)
\* cacheTTL = 10 * time.Minute; the model's clock counts minutes
cacheTTL == 10
startTokenPref == <<"t", "t", "_">>
\* randomToken(12) in linkCache.set
tokenSize == 12
\* const groupSize = 10 in sendPhotoGroups
groupSize == 10
\* the duration makeVideo falls back on
defaultDuration == 10

(***************************************************************************)
(* strings                                                                 *)
(***************************************************************************)
Whitespace == {" ", "\t", "\n", "\r"}

Lower == {"a","b","c","d","e","f","g","h","i","j","k","l","m",
          "n","o","p","q","r","s","t","u","v","w","x","y","z"}
Upper == {"A","B","C","D","E","F","G","H","I","J","K","L","M",
          "N","O","P","Q","R","S","T","U","V","W","X","Y","Z"}
Digit == {"0","1","2","3","4","5","6","7","8","9"}

\* strings.HasPrefix
HasPrefix(s, prefix) ==
    /\ Len(s) >= Len(prefix)
    /\ SubSeq(s, 1, Len(prefix)) = prefix

\* strings.TrimPrefix: removes the prefix once, when present
TrimPrefix(s, prefix) ==
    IF HasPrefix(s, prefix) THEN SubSeq(s, Len(prefix) + 1, Len(s)) ELSE s

\* strings.TrimSpace
RECURSIVE TrimLeftSpace(_)
TrimLeftSpace(s) ==
    IF s # <<>> /\ Head(s) \in Whitespace THEN TrimLeftSpace(Tail(s)) ELSE s

RECURSIVE TrimRightSpace(_)
TrimRightSpace(s) ==
    IF s # <<>> /\ s[Len(s)] \in Whitespace
    THEN TrimRightSpace(SubSeq(s, 1, Len(s) - 1))
    ELSE s

TrimSpace(s) == TrimRightSpace(TrimLeftSpace(s))

\* strings.Fields: the maximal runs of non-whitespace characters, in order
RECURSIVE FieldsFrom(_, _, _)
FieldsFrom(s, i, cur) ==
    IF i > Len(s)
    THEN IF cur = <<>> THEN <<>> ELSE <<cur>>
    ELSE IF s[i] \in Whitespace
         THEN IF cur = <<>>
              THEN FieldsFrom(s, i + 1, <<>>)
              ELSE <<cur>> \o FieldsFrom(s, i + 1, <<>>)
         ELSE FieldsFrom(s, i + 1, Append(cur, s[i]))

Fields(s) == FieldsFrom(s, 1, <<>>)

\* fmt.Sprintf("%d", n) for n >= 0
DigitChars == <<"0","1","2","3","4","5","6","7","8","9">>

RECURSIVE FormatInt(_)
FormatInt(n) ==
    IF n < 10 THEN <<DigitChars[n + 1]>>
    ELSE Append(FormatInt(n \div 10), DigitChars[(n % 10) + 1])

\* base64.RawURLEncoding: the URL-safe alphabet, no padding
encodeURL ==
    <<"A","B","C","D","E","F","G","H","I","J","K","L","M",
      "N","O","P","Q","R","S","T","U","V","W","X","Y","Z",
      "a","b","c","d","e","f","g","h","i","j","k","l","m",
      "n","o","p","q","r","s","t","u","v","w","x","y","z",
      "0","1","2","3","4","5","6","7","8","9","-","_">>

RECURSIVE EncodeToString(_)
EncodeToString(buf) ==
    IF Len(buf) = 0 THEN <<>>
    ELSE IF Len(buf) = 1 THEN
        <<encodeURL[(buf[1] \div 4) + 1],
          encodeURL[((buf[1] % 4) * 16) + 1]>>
    ELSE IF Len(buf) = 2 THEN
        <<encodeURL[(buf[1] \div 4) + 1],
          encodeURL[((buf[1] % 4) * 16 + (buf[2] \div 16)) + 1],
          encodeURL[((buf[2] % 16) * 4) + 1]>>
    ELSE
        <<encodeURL[(buf[1] \div 4) + 1],
          encodeURL[((buf[1] % 4) * 16 + (buf[2] \div 16)) + 1],
          encodeURL[((buf[2] % 16) * 4 + (buf[3] \div 64)) + 1],
          encodeURL[(buf[3] % 64) + 1]>>
        \o EncodeToString(SubSeq(buf, 4, Len(buf)))

(***************************************************************************)
(* tiktokRegex: https?://(?:vm|vt|www)\.tiktok\.com/[a-zA-Z0-9/]+          *)
(***************************************************************************)
LitHttp == <<"h","t","t","p">>
LitColonSlashes == <<":","/","/">>
LitTiktokCom == <<".","t","i","k","t","o","k",".","c","o","m","/">>
HostNames == {<<"v","m">>, <<"v","t">>, <<"w","w","w">>}
PathChars == Lower \cup Upper \cup Digit \cup {"/"}

\* the literal lit occurs in s at position i
MatchLit(s, i, lit) ==
    /\ i + Len(lit) - 1 <= Len(s)
    /\ SubSeq(s, i, i + Len(lit) - 1) = lit

\* the position after the longest run of path characters starting at i
RECURSIVE PathEnd(_, _)
PathEnd(s, i) ==
    IF i <= Len(s) /\ s[i] \in PathChars THEN PathEnd(s, i + 1) ELSE i

\* the position after the match of tiktokRegex that starts at i, 0 if none
MatchAt(s, i) ==
    IF ~MatchLit(s, i, LitHttp) THEN 0
    ELSE LET a == i + Len(LitHttp)
             b == IF MatchLit(s, a, <<"s">>) THEN a + 1 ELSE a
         IN  IF ~MatchLit(s, b, LitColonSlashes) THEN 0
             ELSE LET c == b + Len(LitColonSlashes)
                      hs == {h \in HostNames : MatchLit(s, c, h)}
                  IN  IF hs = {} THEN 0
                      ELSE LET d == c + Len(CHOOSE h \in hs : TRUE)
                           IN  IF ~MatchLit(s, d, LitTiktokCom) THEN 0
                               ELSE LET e == d + Len(LitTiktokCom)
                                        f == PathEnd(s, e)
                                    IN  IF f > e THEN f ELSE 0

\* tiktokRegex.FindString: the leftmost match, "" when there is none
RECURSIVE FindFrom(_, _)
FindFrom(s, i) ==
    IF i > Len(s) THEN <<>>
    ELSE IF MatchAt(s, i) # 0 THEN SubSeq(s, i, MatchAt(s, i) - 1)
         ELSE FindFrom(s, i + 1)

FindString(s) == FindFrom(s, 1)

(***************************************************************************)
(* Inputs of the model: links, update texts, resolver answers, random      *)
(* bytes.                                                                   *)
(***************************************************************************)
StartCmd == <<"/","s","t","a","r","t">>
LinkA == <<"h","t","t","p","s",":","/","/","v","m",".","t","i","k","t","o","k",
           ".","c","o","m","/","Z","M","1","/">>
LinkB == <<"h","t","t","p",":","/","/","w","w","w",".","t","i","k","t","o","k",
           ".","c","o","m","/","t","/","b","2">>
Hello == <<"h","e","l","l","o">>
PlayURL == <<"h","t","t","p","s",":","/","/","v",".","e","x","a","m","p","l","e",
             "/","p",".","m","p","4">>
CoverURL == <<"c","1">>
Img1 == <<"i","1">>
Img2 == <<"i","2">>
BotName == <<"r","e","l","a","y","b","o","t">>
UnknownToken == <<"z","z","z","z","z","z","z","z","z","z","z","z","z","z","z","z">>

\* inline queries a user may type
Queries ==
    { Hello, LinkA, Hello \o <<" ">> \o LinkB \o <<"?","x">> }

\* "/start <payload>": what the Telegram client sends for a deep link, here
\* with the extra white space and trailing text a user may add
StartText(payload) ==
    <<" ">> \o StartCmd \o <<"\t", " ">> \o payload \o <<"\n">> \o LinkB
StartTexts(tk) == { StartText(startTokenPref \o tk) }

\* message texts that do not depend on the tokens issued so far
PlainTexts ==
    { <<>>, Hello, StartCmd, StartCmd \o <<" ">> \o <<"x","x","_","A">>,
      Hello \o <<" ">> \o LinkA \o <<" ">> \o Hello }

\* a resolver answer: err, or the decoded response.Data
Descriptor(play, images) ==
    [err |-> FALSE, Play |-> play, Images |-> images, Cover |-> CoverURL]
ResolveError ==
    [err |-> TRUE, Play |-> <<>>, Images |-> <<>>, Cover |-> <<>>]
Responses ==
    { ResolveError,
      Descriptor(<<>>, <<>>),
      Descriptor(PlayURL, <<>>),
      Descriptor(<<>>, <<Img1, Img2>>),
      Descriptor(PlayURL, <<Img1>>) }

\* outcomes of rand.Read(buf) for a 12-byte buffer: ok with the bytes read,
\* or an error
RandBufs ==
    { [i \in 1..tokenSize |-> IF i = 1 THEN 182 ELSE IF i = 2 THEN 223
                              ELSE IF i = 3 THEN 192 ELSE 0] }
RandOutcomes ==
    {[ok |-> TRUE, buf |-> b] : b \in RandBufs}
        \cup {[ok |-> FALSE, buf |-> [i \in 1..tokenSize |-> 0]]}

(***************************************************************************)
(* State                                                                   *)
(***************************************************************************)
VARIABLES
    now,          \* time.Now(), in minutes since the process started
    botUsername,  \* os.Getenv("BOT_USERNAME")
    items,        \* inlineCache.items: token -> cacheItem
    mu,           \* inlineCache.mu: the goroutine holding it, or NoProc
    pc,           \* where each handler goroutine stands
    text,         \* update.Message.Text of the running handlerMessage
    link,         \* local link of the running handler
    rs,           \* local rs, err of the running handler
    token,        \* local token of set / handleStartPayload and get
    item,         \* local item, ok of get
    res,          \* the (string, bool) that get returns
    out,          \* the calls the running handler has made, in order
    updates,      \* number of inline queries and of messages handed to
                  \* mainRouter so far
    fin,          \* the handler invocation that returned in the last step
    gnow,         \* history: the clock reading at which get decided
    issued,       \* history: every insertion made by set (token, url, time)
    last,         \* history: the latest mutation of items
    pgImages,     \* sendPhotoGroups: its argument imageURLs
    pgCaption,    \* sendPhotoGroups: its argument caption
    pgI,          \* sendPhotoGroups: the loop variable i
    pgSent,       \* sendPhotoGroups: the media groups sent so far, in order
    mvpc,         \* makeVideo: where the calling goroutine stands
    mvImageURLs,  \* makeVideo: its argument imageURLs
    audioURL,     \* makeVideo: its argument audioURL
    duration,     \* makeVideo: its argument duration
    fetches,      \* what http.Get and io.ReadAll do for each locator: 0 is
                  \* the audio, i the i-th image
    task,         \* the download goroutines: 0 the audio, i the i-th image
    wg,           \* the counter of the sync.WaitGroup
    imgBufs,      \* imgBufs
    audBuf,       \* audBuf
    frameRate,    \* frameRate, as a fraction in lowest terms
    imgPipe,      \* the pipe behind imgReader and imgWriter
    audPipe,      \* the pipe behind audReader and audWriter
    imgW,         \* the goroutine that writes imgBufs to imgWriter
    audW,         \* the goroutine that writes audBuf to audWriter
    cmd,          \* the ffmpeg process
    ret           \* what makeVideo returned

\* the state of the router and the cache
routerVars == <<now, botUsername, items, mu, pc, text, link, rs, token, item,
                res, out, updates, fin, gnow, issued, last>>
\* the state of a call of sendPhotoGroups
photoVars == <<pgImages, pgCaption, pgI, pgSent>>
\* what the steps of the router leave alone
\* the state of a call of makeVideo
mvVars == <<mvpc, mvImageURLs, audioURL, duration, fetches, task, wg, imgBufs,
            audBuf, frameRate, imgPipe, audPipe, imgW, audW, cmd, ret>>
\* what the steps of the router leave alone
sideVars == <<photoVars, mvVars>>

vars == <<routerVars, photoVars, mvVars>>

NoProc == "none"
NoItem == [ok |-> FALSE, url |-> <<>>, expires |-> 0]
NoRes == [url |-> <<>>, ok |-> FALSE]
NoRs == [err |-> FALSE, Play |-> <<>>, Images |-> <<>>, Cover |-> <<>>]
NoFin == [handler |-> "none", link |-> <<>>, rs |-> NoRs, token |-> <<>>,
          item |-> NoItem, res |-> NoRes, gnow |-> 0, handled |-> FALSE,
          out |-> <<>>]
NoMutation == [op |-> "none", tok |-> <<>>, url |-> <<>>, at |-> 0]
\* the amounts by which the clock is observed to advance between two steps
TickSteps == {cacheTTL}

\* make(map[string]cacheItem)
EmptyMap == [t \in {} |-> [url |-> <<>>, expires |-> 0]]

\* cacheItem{url, expires}
cacheItem(url, expires) == [url |-> url, expires |-> expires]

\* "Ссылка устарела. Сначала отправьте ссылку заново через inline режим."
ExpiredText == <<"link expired, send the link again in inline mode">>

\* fmt.Sprintf("[src](%s)", x)
SrcMarkdown(x) == <<"[","s","r","c","]","(">> \o x \o <<")">>

\* DeepLink without the prefix
DeepLinkBare(user, prefix, tk) ==
    <<"h","t","t","p","s",":","/","/","t",".","m","e","/">> \o user
        \o <<"?","s","t","a","r","t","=">> \o tk

\* fmt.Sprintf("https://t.me/%s?start=%s%s", botUsername, startTokenPref, token)
DeepLink(user, prefix, tk) ==
    <<"h","t","t","p","s",":","/","/","t",".","m","e","/">> \o user
        \o <<"?","s","t","a","r","t","=">> \o prefix \o tk

\* randomToken(size): base64url of the bytes read, or the decimal clock
\* reading when rand.Read fails
randomToken(r, t) ==
    IF ~r.ok THEN FormatInt(t) ELSE EncodeToString(r.buf)

\* After with the comparison off by one: an entry is dropped at its expiry
AfterOrAt(t, expires) == t >= expires

\* time.Now().After(expires)
After(t, expires) == t > expires

\* Lock that does not wait for the holder
LockWithoutWaiting(p) == mu' = p

\* c.mu.Lock() and c.mu.Unlock()
Lock(p) == mu = NoProc /\ mu' = p
Unlock(p) == mu' = NoProc

\* PhotoGroups that captions every item of a group
RECURSIVE PhotoGroupsCaptionAll(_, _, _)
PhotoGroupsCaptionAll(imageURLs, caption, i) ==
    IF i >= Len(imageURLs) THEN <<>>
    ELSE LET end == IF i + groupSize > Len(imageURLs)
                    THEN Len(imageURLs) ELSE i + groupSize
             chunk == SubSeq(imageURLs, i + 1, end)
             media == [idx \in 1..Len(chunk) |->
                         [Media |-> chunk[idx],
                          Caption |-> IF caption # <<>>
                                      THEN caption ELSE <<>>]]
         IN  <<[op |-> "SendMediaGroup", media |-> media]>>
                 \o PhotoGroupsCaptionAll(imageURLs, caption, i + groupSize)

\* sendPhotoGroups: the media groups passed to SendMediaGroup, in order
RECURSIVE PhotoGroups(_, _, _)
PhotoGroups(imageURLs, caption, i) ==
    IF i >= Len(imageURLs) THEN <<>>
    ELSE LET end == IF i + groupSize > Len(imageURLs)
                    THEN Len(imageURLs) ELSE i + groupSize
             chunk == SubSeq(imageURLs, i + 1, end)
             media == [idx \in 1..Len(chunk) |->
                         [Media |-> chunk[idx],
                          Caption |-> IF idx = 1 /\ caption # <<>>
                                      THEN caption ELSE <<>>]]
         IN  <<[op |-> "SendMediaGroup", media |-> media]>>
                 \o PhotoGroups(imageURLs, caption, i + groupSize)

sendPhotoGroups(imageURLs, caption) == PhotoGroups(imageURLs, caption, 0)

\* sendTikTok that quotes the source link where the play URL belongs
sendTikTokLink(l, r) ==
    <<[op |-> "fetchTikTok", url |-> l]>> \o
    ( IF r.err THEN <<>>
      ELSE IF Len(r.Images) > 0
           THEN sendPhotoGroups(r.Images, SrcMarkdown(l))
           ELSE IF r.Play # <<>>
                THEN <<[op |-> "SendMessage", text |-> SrcMarkdown(l)]>>
                ELSE <<>> )

\* sendTikTok without the return that follows sendPhotoGroups
sendTikTokBoth(l, r) ==
    <<[op |-> "fetchTikTok", url |-> l]>> \o
    ( IF r.err THEN <<>>
      ELSE ( IF Len(r.Images) > 0
             THEN sendPhotoGroups(r.Images, SrcMarkdown(l)) ELSE <<>> )
           \o
           ( IF r.Play # <<>>
             THEN <<[op |-> "SendMessage", text |-> SrcMarkdown(r.Play)]>>
             ELSE <<>> ) )

\* the calls sendTikTok makes for a link and the answer r of the resolver
sendTikTok(l, r) ==
    <<[op |-> "fetchTikTok", url |-> l]>> \o
    ( IF r.err THEN <<>>
      ELSE IF Len(r.Images) > 0
           THEN sendPhotoGroups(r.Images, SrcMarkdown(l))
           ELSE IF r.Play # <<>>
                THEN <<[op |-> "SendMessage", text |-> SrcMarkdown(r.Play)]>>
                ELSE <<>> )

\* the tokens that set has stored so far
IssuedTokens == {w.tok : w \in issued}

\* tokens a user may send without having been handed them
GuessTokens == {UnknownToken} \cup {EncodeToString(b) : b \in RandBufs}

\* the message texts a user may send in the current state
Texts ==
    PlainTexts \cup UNION {StartTexts(tk) : tk \in IssuedTokens \cup GuessTokens}

\* a []byte: nil, or the bytes it holds
Nil == [nil |-> TRUE, bytes |-> <<>>]
Bytes(b) == [nil |-> FALSE, bytes |-> b]

\* no pipe yet, no goroutine yet, no process yet, nothing returned yet
NoPipe == [open |-> FALSE, data |-> <<>>, wclosed |-> FALSE,
           rclosed |-> FALSE]
NoWriter == [pc |-> "none", idx |-> 0, off |-> 0]
NoCmd == [state |-> "none", mode |-> "none", imgIn |-> <<>>, audIn |-> <<>>,
          eofImg |-> FALSE, eofAud |-> FALSE, code |-> 0]
NoRet == [bytes |-> Nil, err |-> "none", diag |-> <<>>]
NoRate == <<0, 0>>

\* no call of makeVideo is being followed
MakeVideoIdle ==
    /\ mvpc = "none"
    /\ mvImageURLs = <<>>
    /\ audioURL = <<>>
    /\ duration = 0
    /\ fetches = <<>>
    /\ task = <<>>
    /\ wg = 0
    /\ imgBufs = <<>>
    /\ audBuf = Nil
    /\ frameRate = NoRate
    /\ imgPipe = NoPipe
    /\ audPipe = NoPipe
    /\ imgW = NoWriter
    /\ audW = NoWriter
    /\ cmd = NoCmd
    /\ ret = NoRet

\* no call of sendPhotoGroups is being followed
PhotoIdle ==
    /\ pgImages = <<>>
    /\ pgCaption = <<>>
    /\ pgI = 0
    /\ pgSent = <<>>

Init ==
    /\ now = 0
    /\ botUsername \in {<<>>, BotName}
    /\ items = EmptyMap
    /\ mu = NoProc
    /\ pc = [p \in Procs |-> "idle"]
    /\ text = [p \in Procs |-> <<>>]
    /\ link = [p \in Procs |-> <<>>]
    /\ rs = [p \in Procs |-> NoRs]
    /\ token = [p \in Procs |-> <<>>]
    /\ item = [p \in Procs |-> NoItem]
    /\ res = [p \in Procs |-> NoRes]
    /\ out = [p \in Procs |-> <<>>]
    /\ updates = [inline |-> 0, message |-> 0]
    /\ fin = NoFin
    /\ gnow = [p \in Procs |-> 0]
    /\ issued = {}
    /\ last = NoMutation
    /\ PhotoIdle
    /\ MakeVideoIdle

\* the clock advances
Tick ==
    /\ \E d \in TickSteps :
          /\ now + d <= MaxTime
          /\ now' = now + d
    /\ fin' = NoFin
    /\ UNCHANGED <<botUsername, items, mu, pc, text, link, rs, token, item,
                   res, out, updates, gnow, issued, last>>

    /\ UNCHANGED sideVars
\* the handler of goroutine p returns to mainRouter and the goroutine ends;
\* r records the invocation
Finish(p, r) ==
    /\ fin' = r
    /\ pc' = [pc EXCEPT ![p] = "idle"]
    /\ text' = [text EXCEPT ![p] = <<>>]
    /\ link' = [link EXCEPT ![p] = <<>>]
    /\ rs' = [rs EXCEPT ![p] = NoRs]
    /\ token' = [token EXCEPT ![p] = <<>>]
    /\ item' = [item EXCEPT ![p] = NoItem]
    /\ res' = [res EXCEPT ![p] = NoRes]
    /\ out' = [out EXCEPT ![p] = <<>>]
    /\ gnow' = [gnow EXCEPT ![p] = 0]

\* the goroutine that mainRouter's next update runs in: goroutines have no
\* identity of their own, so the first idle one is taken
Idle == {p \in Procs : pc[p] = "idle"}
NextProc(p) == p \in Idle /\ \A q \in Idle : ProcOrder[p] <= ProcOrder[q]

\* ResolveFailed without the test for an empty descriptor
ResolveErrored(r) == r.err

\* err != nil || (rs.Data.Play == "" && len(rs.Data.Images) == 0)
ResolveFailed(r) == r.err \/ (r.Play = <<>> /\ Len(r.Images) = 0)

(***************************************************************************)
(* handlerInline, up to its return or to the call of inlineCache.set,      *)
(* whose first statement is token := randomToken(12)                       *)
(***************************************************************************)
HandlerInline(p) ==
    /\ NextProc(p)
    /\ updates.inline < MaxInline
    /\ updates' = [updates EXCEPT !.inline = @ + 1]
    /\ \E query \in Queries :
          LET l == FindString(query)
              fetch == [op |-> "fetchTikTok", url |-> l]
              Done(r, o) ==
                  Finish(p, [NoFin EXCEPT !.handler = "handlerInline",
                                !.link = l, !.rs = r, !.out = o])
          IN  IF l = <<>> THEN Done(NoRs, <<>>)
              ELSE \E r \in Responses :
                 IF ResolveFailed(r) THEN Done(r, <<fetch>>)
                 ELSE IF Len(r.Images) > 0
                 THEN IF botUsername = <<>> THEN Done(r, <<fetch>>)
                      ELSE \E rnd \in RandOutcomes :
                           /\ pc' = [pc EXCEPT ![p] = "set_lock"]
                           /\ link' = [link EXCEPT ![p] = l]
                           /\ rs' = [rs EXCEPT ![p] = r]
                           /\ out' = [out EXCEPT ![p] = <<fetch>>]
                           /\ token' = [token EXCEPT ![p] =
                                           randomToken(rnd, now)]
                           /\ fin' = NoFin
                           /\ UNCHANGED <<text, item, res, gnow>>
                 ELSE Done(r, <<fetch,
                                [op |-> "AnswerInlineQuery",
                                 result |-> "video", url |-> r.Play]>>)
    /\ UNCHANGED <<now, botUsername, items, mu, issued, last>>

    /\ UNCHANGED sideVars
(***************************************************************************)
(* linkCache.set                                                           *)
(***************************************************************************)
\* c.items[token] = cacheItem{url: url, expires: time.Now().Add(cacheTTL)}
Store(m, tk, url, t) ==
    [x \in DOMAIN m \cup {tk} |->
        IF x = tk THEN cacheItem(url, t + cacheTTL) ELSE m[x]]

\* c.mu.Lock() and the insertion it protects
SetWrite(p) ==
    /\ pc[p] = "set_lock"
    /\ Lock(p)
    /\ items' = Store(items, token[p], link[p], now)
    /\ issued' = issued \cup {[tok |-> token[p], url |-> link[p], at |-> now]}
    /\ last' = [op |-> "set", tok |-> token[p], url |-> link[p], at |-> now]
    /\ pc' = [pc EXCEPT ![p] = "set_unlock"]
    /\ fin' = NoFin
    /\ UNCHANGED <<now, botUsername, text, link, rs, token, item, res, out,
                   updates, gnow>>

    /\ UNCHANGED sideVars
\* c.mu.Unlock(), return token; handlerInline then answers with the article
\* whose button opens the deep link
SetReturn(p) ==
    /\ pc[p] = "set_unlock"
    /\ Unlock(p)
    /\ Finish(p, [NoFin EXCEPT !.handler = "handlerInline",
                     !.link = link[p], !.rs = rs[p], !.token = token[p],
                     !.out = out[p] \o
                       <<[op |-> "set", url |-> link[p], token |-> token[p]],
                         [op |-> "AnswerInlineQuery", result |-> "article",
                          url |-> DeepLink(botUsername, startTokenPref,
                                           token[p])]>>])
    /\ UNCHANGED <<now, botUsername, items, updates, issued, last>>

    /\ UNCHANGED sideVars
(***************************************************************************)
(* handlerMessage and handleStartPayload, up to the return or to the call  *)
(* of inlineCache.get                                                      *)
(***************************************************************************)
\* handleStartPayload before the cache lookup: whether the text is a
\* "/start tt_..." command, and the token it carries
StartPayload(msg) ==
    LET parts == Fields(msg)
    IN  IF Len(parts) = 0 \/ parts[1] # StartCmd
        THEN [is |-> FALSE, token |-> <<>>]
        ELSE IF Len(parts) < 2 THEN [is |-> FALSE, token |-> <<>>]
        ELSE LET payload == TrimSpace(parts[2])
             IN  IF ~HasPrefix(payload, startTokenPref)
                 THEN [is |-> FALSE, token |-> <<>>]
                 ELSE [is |-> TRUE,
                       token |-> TrimPrefix(payload, startTokenPref)]

HandlerMessage(p) ==
    /\ NextProc(p)
    /\ updates.message < MaxMessages
    /\ updates' = [updates EXCEPT !.message = @ + 1]
    /\ \E t \in Texts :
          LET sp == StartPayload(t)
              l == FindString(t)
              Done(r, o) ==
                  Finish(p, [NoFin EXCEPT !.handler = "handlerMessage",
                                !.link = l, !.rs = r, !.out = o])
          IN  IF t = <<>> THEN Done(NoRs, <<>>)
              ELSE IF sp.is
              THEN /\ token' = [token EXCEPT ![p] = sp.token]
                   /\ text' = [text EXCEPT ![p] = t]
                   /\ pc' = [pc EXCEPT ![p] = "get_lock"]
                   /\ fin' = NoFin
                   /\ UNCHANGED <<link, rs, item, res, out, gnow>>
              ELSE IF l = <<>> THEN Done(NoRs, <<>>)
              ELSE \E r \in Responses : Done(r, sendTikTok(l, r))
    /\ UNCHANGED <<now, botUsername, items, mu, issued, last>>

    /\ UNCHANGED sideVars
(***************************************************************************)
(* linkCache.get                                                           *)
(***************************************************************************)
\* Lookup that falls back on another entry when the token is absent
LookupAny(m, tk) ==
    IF DOMAIN m = {} THEN NoItem
    ELSE LET k == IF tk \in DOMAIN m THEN tk ELSE CHOOSE x \in DOMAIN m : TRUE
         IN  [ok |-> TRUE, url |-> m[k].url, expires |-> m[k].expires]

\* item, ok := c.items[token]
Lookup(m, tk) ==
    IF tk \in DOMAIN m
    THEN [ok |-> TRUE, url |-> m[tk].url, expires |-> m[tk].expires]
    ELSE NoItem

\* c.mu.Lock() and the lookup; return "", false when the token is absent
GetLookup(p) ==
    /\ pc[p] = "get_lock"
    /\ Lock(p)
    /\ LET it == Lookup(items, token[p])
       IN  /\ item' = [item EXCEPT ![p] = it]
           /\ IF ~it.ok
              THEN /\ res' = [res EXCEPT ![p] = NoRes]
                   /\ gnow' = [gnow EXCEPT ![p] = now]
                   /\ pc' = [pc EXCEPT ![p] = "get_unlock"]
              ELSE /\ pc' = [pc EXCEPT ![p] = "get_check"]
                   /\ UNCHANGED <<res, gnow>>
    /\ fin' = NoFin
    /\ UNCHANGED <<now, botUsername, items, text, link, rs, token, out,
                   updates, issued, last>>

    /\ UNCHANGED sideVars
\* if time.Now().After(item.expires) ... else return item.url, true
GetCheck(p) ==
    /\ pc[p] = "get_check"
    /\ gnow' = [gnow EXCEPT ![p] = now]
    /\ IF After(now, item[p].expires)
       THEN /\ pc' = [pc EXCEPT ![p] = "get_delete"]
            /\ UNCHANGED res
       ELSE /\ res' = [res EXCEPT ![p] = [url |-> item[p].url, ok |-> TRUE]]
            /\ pc' = [pc EXCEPT ![p] = "get_unlock"]
    /\ fin' = NoFin
    /\ UNCHANGED <<now, botUsername, items, mu, text, link, rs, token, item,
                   out, updates, issued, last>>

    /\ UNCHANGED sideVars
\* delete(c.items, token)
Delete(m, tk) == [x \in DOMAIN m \ {tk} |-> m[x]]

\* the eviction; return "", false
GetDelete(p) ==
    /\ pc[p] = "get_delete"
    /\ items' = Delete(items, token[p])
    /\ last' = [op |-> "delete", tok |-> token[p], url |-> <<>>, at |-> now]
    /\ res' = [res EXCEPT ![p] = NoRes]
    /\ pc' = [pc EXCEPT ![p] = "get_unlock"]
    /\ fin' = NoFin
    /\ UNCHANGED <<now, botUsername, mu, text, link, rs, token, item, out,
                   updates, gnow, issued>>

    /\ UNCHANGED sideVars
\* handleStartPayload after get: what it does with (link, ok)
StartPayloadBranch(r) == IF ~r.ok THEN "expired" ELSE "send"

\* StartPayloadHandled that reports a missing token as not handled
StartPayloadFound(r) == r.ok

\* handleStartPayload after get: the bool it returns to handlerMessage
StartPayloadHandled(r) == TRUE

\* the deferred c.mu.Unlock() and the return of get; handleStartPayload
\* then sends the expiry notice or calls sendTikTok; handlerMessage returns
\* if it is told the message was handled, and looks for a link otherwise
GetReturn(p) ==
    /\ pc[p] = "get_unlock"
    /\ Unlock(p)
    /\ LET get == [op |-> "get", token |-> token[p]]
           expired == [op |-> "SendMessage", text |-> ExpiredText]
           h == StartPayloadHandled(res[p])
           l == FindString(text[p])
           Done(r, o) ==
               Finish(p, [handler |-> "handlerMessage",
                          link |-> IF r = NoRs THEN <<>> ELSE res[p].url,
                          rs |-> r, token |-> token[p], item |-> item[p],
                          res |-> res[p], gnow |-> gnow[p], handled |-> h,
                          out |-> out[p] \o o])
       IN  IF StartPayloadBranch(res[p]) = "expired"
           THEN IF h \/ l = <<>> THEN Done(NoRs, <<get, expired>>)
                ELSE \E r \in Responses :
                        Done(NoRs, <<get, expired>> \o sendTikTok(l, r))
           ELSE \E r \in Responses :
                   Done(r, <<get>> \o sendTikTok(res[p].url, r)
                            \o IF h \/ l = <<>> THEN <<>>
                               ELSE sendTikTok(l, r))
    /\ UNCHANGED <<now, botUsername, items, updates, issued, last>>

    /\ UNCHANGED sideVars
Next ==
    \/ Tick
    \/ \E p \in Procs : HandlerInline(p)
    \/ \E p \in Procs : SetWrite(p)
    \/ \E p \in Procs : SetReturn(p)
    \/ \E p \in Procs : HandlerMessage(p)
    \/ \E p \in Procs : GetLookup(p)
    \/ \E p \in Procs : GetCheck(p)
    \/ \E p \in Procs : GetDelete(p)
    \/ \E p \in Procs : GetReturn(p)

Spec == Init /\ [][Next]_vars

(***************************************************************************)
(* sendPhotoGroups on its own: the loop over the image list, one            *)
(* SendMediaGroup per iteration                                            *)
(***************************************************************************)
\* the router at rest
RouterIdle ==
    /\ now = 0
    /\ botUsername = BotName
    /\ items = EmptyMap
    /\ mu = NoProc
    /\ pc = [p \in Procs |-> "idle"]
    /\ text = [p \in Procs |-> <<>>]
    /\ link = [p \in Procs |-> <<>>]
    /\ rs = [p \in Procs |-> NoRs]
    /\ token = [p \in Procs |-> <<>>]
    /\ item = [p \in Procs |-> NoItem]
    /\ res = [p \in Procs |-> NoRes]
    /\ out = [p \in Procs |-> <<>>]
    /\ updates = [inline |-> 0, message |-> 0]
    /\ fin = NoFin
    /\ gnow = [p \in Procs |-> 0]
    /\ issued = {}
    /\ last = NoMutation

\* the k-th image locator of a slideshow
PhotoURL(k) == <<"i","m","g">> \o FormatInt(k)

\* rs.Data.Images: lists of distinct locators, of every length up to MaxPhotos
ImageLists == {[k \in 1..n |-> PhotoURL(k)] : n \in 0..MaxPhotos}

\* the captions sendPhotoGroups is called with
Captions == {<<>>, SrcMarkdown(LinkA)}

InitPhotoGroups ==
    /\ RouterIdle
    /\ pgImages \in ImageLists
    /\ pgCaption \in Captions
    /\ pgI = 0
    /\ pgSent = <<>>
    /\ MakeVideoIdle

\* one iteration of the loop: the chunk from i, its media, SendMediaGroup,
\* i += groupSize
SendMediaGroup ==
    /\ pgI < Len(pgImages)
    /\ pgSent' = Append(pgSent, PhotoGroups(pgImages, pgCaption, pgI)[1])
    /\ pgI' = pgI + groupSize
    /\ UNCHANGED <<pgImages, pgCaption, routerVars, mvVars>>

NextPhotoGroups == SendMediaGroup

SpecPhotoGroups == InitPhotoGroups /\ [][NextPhotoGroups]_vars

(***************************************************************************)
(* makeVideo on its own: the downloads, the barrier, the pipes, ffmpeg and *)
(* the two writers                                                         *)
(***************************************************************************)
\* the audio locator
AudioURL == <<"a","u","d">>

\* the body served for locator u, in the pieces it is read and written in
Body(u) == <<[src |-> u, part |-> 1], [src |-> u, part |-> 2]>>

\* what a download meets: the whole body; http.Get failing; the connection
\* breaking while io.ReadAll reads the body; or no answer at all
FetchOutcomes == {"ok", "refused", "cut", "hang"}

\* downloadToMem(u): nil and the error of http.Get, or what io.ReadAll
\* returns, which is the bytes read so far together with its error
downloadToMem(u, o) ==
    IF o = "refused" THEN [buf |-> Nil, err |-> TRUE]
    ELSE IF o = "cut" THEN [buf |-> Bytes(SubSeq(Body(u), 1, 1)), err |-> TRUE]
    ELSE [buf |-> Bytes(Body(u)), err |-> FALSE]

\* the locator that download goroutine i was given
Locator(i) == IF i = 0 THEN audioURL ELSE mvImageURLs[i]

RECURSIVE GCD(_, _)
GCD(a, b) == IF b = 0 THEN a ELSE GCD(b, a % b)

Abs(x) == IF x < 0 THEN 0 - x ELSE x

\* the quotient n / d as a fraction in lowest terms with a positive
\* denominator
Quotient(n, d) ==
    LET g == GCD(Abs(n), Abs(d))
    IN  IF g = 0 THEN <<0, 0>>
        ELSE IF d < 0 THEN <<(0 - n) \div g, (0 - d) \div g>>
        ELSE <<n \div g, d \div g>>

\* the fallback applied to zero only
DurationOrDefaultZero(d) == IF d = 0 THEN defaultDuration ELSE d

\* if duration <= 0 { duration = 10 }
DurationOrDefault(d) == IF d <= 0 THEN defaultDuration ELSE d

\* float64(len(imageURLs)) / float64(duration)
FrameRate(n, d) == Quotient(n, DurationOrDefault(d))

\* the arguments makeVideo is followed on
Durations == {0, 5}
InitMakeVideo ==
    /\ RouterIdle
    /\ PhotoIdle
    /\ mvpc = "entry"
    /\ mvImageURLs \in {[k \in 1..n |-> PhotoURL(k)] : n \in 0..MaxImages}
    /\ audioURL = AudioURL
    /\ duration \in Durations
    /\ fetches \in [0..Len(mvImageURLs) -> FetchOutcomes]
    /\ task = [i \in 0..Len(mvImageURLs) |-> "none"]
    /\ wg = 0
    /\ imgBufs = <<>>
    /\ audBuf = Nil
    /\ frameRate = NoRate
    /\ imgPipe = NoPipe
    /\ audPipe = NoPipe
    /\ imgW = NoWriter
    /\ audW = NoWriter
    /\ cmd = NoCmd
    /\ ret = NoRet

\* imgBufs := make([][]byte, len(imageURLs)); wg.Add(len(imageURLs) + 1);
\* one goroutine for the audio and one for each image
MakeVideoSpawn ==
    /\ mvpc = "entry"
    /\ imgBufs' = [i \in 1..Len(mvImageURLs) |-> Nil]
    /\ wg' = Len(mvImageURLs) + 1
    /\ task' = [i \in 0..Len(mvImageURLs) |-> "running"]
    /\ mvpc' = "wait"
    /\ UNCHANGED <<mvImageURLs, audioURL, duration, fetches, audBuf,
                   frameRate, imgPipe, audPipe, imgW, audW, cmd, ret>>
    /\ UNCHANGED <<routerVars, photoVars>>

\* every goroutine assigns the slot the loop variable ended on
SlotOfLoopEnd(idx) == Len(mvImageURLs)

\* the slot that download goroutine idx assigns: its own
Slot(idx) == idx

\* a download goroutine: audBuf, _ = downloadToMem(audioURL), or
\* imgBufs[idx], _ = downloadToMem(u); then the deferred wg.Done()
Download(i) ==
    /\ i \in DOMAIN task
    /\ task[i] = "running"
    /\ fetches[i] # "hang"
    /\ LET d == downloadToMem(Locator(i), fetches[i])
       IN  IF i = 0
           THEN audBuf' = d.buf /\ UNCHANGED imgBufs
           ELSE imgBufs' = [imgBufs EXCEPT ![Slot(i)] = d.buf]
                  /\ UNCHANGED audBuf
    /\ task' = [task EXCEPT ![i] = "done"]
    /\ wg' = wg - 1
    /\ UNCHANGED <<mvpc, mvImageURLs, audioURL, duration, fetches, frameRate,
                   imgPipe, audPipe, imgW, audW, cmd, ret>>
    /\ UNCHANGED <<routerVars, photoVars>>

\* wg.Wait() returns although one task is still running
WaitDoneEarly(n) == n <= 1

\* wg.Wait() returns when the counter is zero
WaitDone(n) == n = 0

MakeVideoWait ==
    /\ mvpc = "wait"
    /\ WaitDone(wg)
    /\ mvpc' = "check"
    /\ UNCHANGED <<mvImageURLs, audioURL, duration, fetches, task, wg,
                   imgBufs, audBuf, frameRate, imgPipe, audPipe, imgW, audW,
                   cmd, ret>>
    /\ UNCHANGED <<routerVars, photoVars>>

\* os.Pipe(): both ends open, nothing in it
NewPipe == [open |-> TRUE, data |-> <<>>, wclosed |-> FALSE,
            rclosed |-> FALSE]

\* if audBuf == nil { return nil, error }; otherwise the two pipes and the
\* frame rate
MakeVideoCheck ==
    /\ mvpc = "check"
    /\ IF audBuf.nil
       THEN /\ ret' = [bytes |-> Nil, err |-> "failed to download audio",
                    diag |-> <<>>]
            /\ mvpc' = "returned"
            /\ UNCHANGED <<imgPipe, audPipe, frameRate>>
       ELSE /\ imgPipe' = NewPipe
            /\ audPipe' = NewPipe
            /\ frameRate' = FrameRate(Len(mvImageURLs), duration)
            /\ mvpc' = "start"
            /\ UNCHANGED ret
    /\ UNCHANGED <<mvImageURLs, audioURL, duration, fetches, task, wg,
                   imgBufs, audBuf, imgW, audW, cmd>>
    /\ UNCHANGED <<routerVars, photoVars>>

\* the arguments of makeVideo and what the downloads left behind: nothing
\* after the barrier changes them
mvArgs == <<mvImageURLs, audioURL, duration, fetches>>
fetched == <<task, wg, imgBufs, audBuf>>

\* how ffmpeg treats its inputs: it reads both to their end, or it may exit
\* before (an input it cannot decode, -shortest)
EncoderModes == {"reads", "early"}

\* the writers are launched whatever cmd.Start() returned
StartBranchAlways(ok) == "writers"

\* if err := cmd.Start(); err != nil { return nil, err }
StartBranch(ok) == IF ok THEN "writers" ELSE "return"

\* cmd.Start(), and the two go statements that follow when it succeeds
CmdStart ==
    /\ mvpc = "start"
    /\ \E ok \in BOOLEAN, m \in EncoderModes :
          /\ ok \/ m = "reads"
          /\ IF StartBranch(ok) = "return"
             THEN /\ ret' = [bytes |-> Nil, err |-> "start", diag |-> <<>>]
                  /\ mvpc' = "returned"
                  /\ UNCHANGED <<imgW, audW, cmd>>
             ELSE /\ cmd' = [NoCmd EXCEPT
                               !.state = IF ok THEN "running" ELSE "failed",
                               !.mode = m]
                  /\ imgW' = [pc |-> "write", idx |-> 1, off |-> 0]
                  /\ audW' = [pc |-> "write", idx |-> 1, off |-> 0]
                  /\ mvpc' = "cmdwait"
                  /\ UNCHANGED ret
    /\ UNCHANGED <<mvArgs, fetched, frameRate, imgPipe, audPipe>>
    /\ UNCHANGED <<routerVars, photoVars>>

\* a read end of the pipe is open: the child's while it runs, the parent's
\* until the file is finalized
HasReader(pipe) == cmd.state = "running" \/ ~pipe.rclosed
Room(pipe) == Len(pipe.data) < PipeCap

\* a piece goes into the pipe twice, as when a write is repeated
PutTwice(pipe, c) == [pipe EXCEPT !.data = Append(Append(@, c), c)]

\* a piece goes into the pipe
Put(pipe, c) == [pipe EXCEPT !.data = Append(@, c)]

\* the write end is left open
CloseSkipped(pipe) == pipe

\* Close() of the write end
Close(pipe) == [pipe EXCEPT !.wclosed = TRUE]

\* one step of the loop over imgBufs: a nil or exhausted buffer is passed
\* over; Write fails when nobody can read; otherwise the next piece goes
\* into the pipe once there is room
ImgWrite ==
    /\ imgW.pc = "write"
    /\ imgW.idx <= Len(imgBufs)
    /\ LET b == imgBufs[imgW.idx]
           next == [imgW EXCEPT !.idx = @ + 1, !.off = 0]
       IN  IF b.nil \/ imgW.off >= Len(b.bytes)
           THEN imgW' = next /\ UNCHANGED imgPipe
           ELSE IF ~HasReader(imgPipe)
           THEN imgW' = next /\ UNCHANGED imgPipe
           ELSE /\ Room(imgPipe)
                /\ imgPipe' = Put(imgPipe, b.bytes[imgW.off + 1])
                /\ imgW' = [imgW EXCEPT !.off = @ + 1]
    /\ UNCHANGED <<mvpc, mvArgs, fetched, frameRate, audPipe, audW, cmd, ret>>
    /\ UNCHANGED <<routerVars, photoVars>>

\* defer imgWriter.Close()
ImgClose ==
    /\ imgW.pc = "write"
    /\ imgW.idx > Len(imgBufs)
    /\ imgPipe' = Close(imgPipe)
    /\ imgW' = [imgW EXCEPT !.pc = "done"]
    /\ UNCHANGED <<mvpc, mvArgs, fetched, frameRate, audPipe, audW, cmd, ret>>
    /\ UNCHANGED <<routerVars, photoVars>>

\* audWriter.Write(audBuf), piece by piece
AudWrite ==
    /\ audW.pc = "write"
    /\ audW.off < Len(audBuf.bytes)
    /\ IF ~HasReader(audPipe)
       THEN audW' = [audW EXCEPT !.off = Len(audBuf.bytes)]
              /\ UNCHANGED audPipe
       ELSE /\ Room(audPipe)
            /\ audPipe' = Put(audPipe, audBuf.bytes[audW.off + 1])
            /\ audW' = [audW EXCEPT !.off = @ + 1]
    /\ UNCHANGED <<mvpc, mvArgs, fetched, frameRate, imgPipe, imgW, cmd, ret>>
    /\ UNCHANGED <<routerVars, photoVars>>

\* defer audWriter.Close()
AudClose ==
    /\ audW.pc = "write"
    /\ audW.off >= Len(audBuf.bytes)
    /\ audPipe' = Close(audPipe)
    /\ audW' = [audW EXCEPT !.pc = "done"]
    /\ UNCHANGED <<mvpc, mvArgs, fetched, frameRate, imgPipe, imgW, cmd, ret>>
    /\ UNCHANGED <<routerVars, photoVars>>

\* ffmpeg takes the next piece from pipe:3
EncReadImg ==
    /\ cmd.state = "running"
    /\ imgPipe.data # <<>>
    /\ cmd' = [cmd EXCEPT !.imgIn = Append(@, Head(imgPipe.data))]
    /\ imgPipe' = [imgPipe EXCEPT !.data = Tail(@)]
    /\ UNCHANGED <<mvpc, mvArgs, fetched, frameRate, audPipe, imgW, audW, ret>>
    /\ UNCHANGED <<routerVars, photoVars>>

\* ffmpeg takes the next piece from pipe:4
EncReadAud ==
    /\ cmd.state = "running"
    /\ audPipe.data # <<>>
    /\ cmd' = [cmd EXCEPT !.audIn = Append(@, Head(audPipe.data))]
    /\ audPipe' = [audPipe EXCEPT !.data = Tail(@)]
    /\ UNCHANGED <<mvpc, mvArgs, fetched, frameRate, imgPipe, imgW, audW, ret>>
    /\ UNCHANGED <<routerVars, photoVars>>

\* a read from an empty pipe whose write end is closed: end of stream
EncEof ==
    /\ cmd.state = "running"
    /\ \/ /\ ~cmd.eofImg
          /\ imgPipe.data = <<>>
          /\ imgPipe.wclosed
          /\ cmd' = [cmd EXCEPT !.eofImg = TRUE]
       \/ /\ ~cmd.eofAud
          /\ audPipe.data = <<>>
          /\ audPipe.wclosed
          /\ cmd' = [cmd EXCEPT !.eofAud = TRUE]
    /\ UNCHANGED <<mvpc, mvArgs, fetched, frameRate, imgPipe, audPipe, imgW,
                   audW, ret>>
    /\ UNCHANGED <<routerVars, photoVars>>

\* ffmpeg exits, with status 0 or not: after the end of both inputs, or
\* before if it is of that mode
EncExit ==
    /\ cmd.state = "running"
    /\ cmd.mode = "early" \/ (cmd.eofImg /\ cmd.eofAud)
    /\ \E c \in {0, 1} : cmd' = [cmd EXCEPT !.state = "exited", !.code = c]
    /\ UNCHANGED <<mvpc, mvArgs, fetched, frameRate, imgPipe, audPipe, imgW,
                   audW, ret>>
    /\ UNCHANGED <<routerVars, photoVars>>

\* outBuf: what ffmpeg wrote to pipe:1 from what it had read
outBuf(c) == <<[video |-> c.imgIn, audio |-> c.audIn]>>

\* errBuf: what ffmpeg wrote to its standard error
errBuf(c) == <<[status |-> c.code, frames |-> Len(c.imgIn)]>>

\* the output captured so far is returned along with the error
WaitResultPartial(c) ==
    IF c.state = "exited" /\ c.code = 0
    THEN [bytes |-> Bytes(outBuf(c)), err |-> "none", diag |-> <<>>]
    ELSE [bytes |-> Bytes(outBuf(c)), err |-> "ffmpeg", diag |-> errBuf(c)]

\* if err := cmd.Wait(); err != nil { return nil, "ffmpeg: err, stderr" };
\* return outBuf.Bytes(), nil
WaitResult(c) ==
    IF c.state = "exited" /\ c.code = 0
    THEN [bytes |-> Bytes(outBuf(c)), err |-> "none", diag |-> <<>>]
    ELSE [bytes |-> Nil, err |-> "ffmpeg", diag |-> errBuf(c)]

\* cmd.Wait() and the return that follows
CmdWait ==
    /\ mvpc = "cmdwait"
    /\ cmd.state \in {"exited", "failed"}
    /\ ret' = WaitResult(cmd)
    /\ mvpc' = "returned"
    /\ UNCHANGED <<mvArgs, fetched, frameRate, imgPipe, audPipe, imgW, audW,
                   cmd>>
    /\ UNCHANGED <<routerVars, photoVars>>

\* after the return nothing refers to imgReader and audReader any more (nor
\* to the write ends if no writer was launched): the finalizers of the files
\* close them
Finalize ==
    /\ mvpc = "returned"
    /\ imgPipe.open
    /\ ~imgPipe.rclosed
    /\ imgPipe' = [imgPipe EXCEPT !.rclosed = TRUE,
                                  !.wclosed = @ \/ imgW.pc = "none"]
    /\ audPipe' = [audPipe EXCEPT !.rclosed = TRUE,
                                  !.wclosed = @ \/ audW.pc = "none"]
    /\ UNCHANGED <<mvpc, mvArgs, fetched, frameRate, imgW, audW, cmd, ret>>
    /\ UNCHANGED <<routerVars, photoVars>>

\* the goroutine that called makeVideo
MakeVideoMain ==
    MakeVideoSpawn \/ MakeVideoWait \/ MakeVideoCheck \/ CmdStart \/ CmdWait
ImgWriter == ImgWrite \/ ImgClose
AudWriter == AudWrite \/ AudClose
Encoder == EncReadImg \/ EncReadAud \/ EncEof \/ EncExit

NextMakeVideo ==
    \/ MakeVideoSpawn
    \/ \E i \in 0..MaxImages : Download(i)
    \/ MakeVideoWait
    \/ MakeVideoCheck
    \/ CmdStart
    \/ ImgWrite
    \/ ImgClose
    \/ AudWrite
    \/ AudClose
    \/ EncReadImg
    \/ EncReadAud
    \/ EncEof
    \/ EncExit
    \/ CmdWait
    \/ Finalize

SpecMakeVideo == InitMakeVideo /\ [][NextMakeVideo]_vars

\* every goroutine that can take a step, and the ffmpeg process, is
\* scheduled in the end
FairSpecMakeVideo ==
    /\ SpecMakeVideo
    /\ WF_vars(MakeVideoMain)
    /\ \A i \in 0..MaxImages : WF_vars(Download(i))
    /\ WF_vars(ImgWriter)
    /\ WF_vars(AudWriter)
    /\ WF_vars(Encoder)

(***************************************************************************)
(* The frame rate on its own: from the call of makeVideo to the value      *)
(* handed to ffmpeg as -framerate                                          *)
(***************************************************************************)
InitFrameRate ==
    /\ RouterIdle
    /\ PhotoIdle
    /\ mvpc = "entry"
    /\ mvImageURLs \in {[k \in 1..n |-> PhotoURL(k)] : n \in 0..MaxFrames}
    /\ audioURL = AudioURL
    /\ duration \in (0 - MaxDuration)..MaxDuration
    /\ fetches = <<>>
    /\ task = <<>>
    /\ wg = 0
    /\ imgBufs = <<>>
    /\ audBuf = Nil
    /\ frameRate = NoRate
    /\ imgPipe = NoPipe
    /\ audPipe = NoPipe
    /\ imgW = NoWriter
    /\ audW = NoWriter
    /\ cmd = NoCmd
    /\ ret = NoRet

\* the default of duration, and frameRate := float64(len(imageURLs)) /
\* float64(duration)
ComputeFrameRate ==
    /\ mvpc = "entry"
    /\ frameRate' = FrameRate(Len(mvImageURLs), duration)
    /\ mvpc' = "rate"
    /\ UNCHANGED <<mvArgs, fetched, imgPipe, audPipe, imgW, audW, cmd, ret>>
    /\ UNCHANGED <<routerVars, photoVars>>

NextFrameRate == ComputeFrameRate

SpecFrameRate == InitFrameRate /\ [][NextFrameRate]_vars

(***************************************************************************)
(* Properties                                                              *)
(***************************************************************************)
\* goroutines inside the critical section of set or of get
InCritical == {p \in Procs :
                 pc[p] \in {"set_unlock", "get_check", "get_delete",
                            "get_unlock"}}

\* a get that has decided: it is about to evict, or holds its result
Decided(p) == pc[p] \in {"get_delete", "get_unlock"}

\* the invocation that just returned went through handleStartPayload's get
ExercisedToken ==
    /\ fin.handler = "handlerMessage"
    /\ fin.out # <<>>
    /\ fin.out[1] = [op |-> "get", token |-> fin.token]

\* C1: token round trip.  When the latest change of the store is set(R)
\* returning T at time t0, a get(T) that reads the clock no later than
\* t0 + cacheTTL returns (R, true) and does not evict.
TokenRoundTrip ==
    \A p \in Procs :
        ( /\ Decided(p)
          /\ last.op = "set"
          /\ last.tok = token[p]
          /\ gnow[p] <= last.at + cacheTTL )
        => /\ pc[p] = "get_unlock"
           /\ res[p] = [url |-> last.url, ok |-> TRUE]

\* a get of the token just set returns its resource at the last minute of
\* the TTL, while another entry is in the store
RoundTripAtTTL ==
    \E p \in Procs :
        /\ pc[p] = "get_unlock"
        /\ last.op = "set"
        /\ last.tok = token[p]
        /\ gnow[p] = last.at + cacheTTL
        /\ res[p] = [url |-> last.url, ok |-> TRUE]

GetKeepsExpiry ==
    \A p \in Procs : \A t \in DOMAIN items \cap DOMAIN items' :
        ( /\ pc[p] \in {"get_lock", "get_check", "get_delete", "get_unlock"}
          /\ pc'[p] # pc[p] )
        => items'[t].expires = items[t].expires

\* C2: expiry.  For every insertion of T at t0, a get(T) that reads the
\* clock at t0 + cacheTTL or later returns not-found, now and at every later
\* get; and no step of a get changes the expiry of an entry that stays.
ExpiredFromTTL ==
    /\ [](\A p \in Procs : \A w \in issued :
            (pc[p] = "get_unlock" /\ w.tok = token[p]
               /\ gnow[p] >= w.at + cacheTTL)
            => res[p] = NoRes)
    /\ [][GetKeepsExpiry]_vars

NoLiveEntryLost ==
    \A w \in issued :
        now <= w.at + cacheTTL
        => /\ w.tok \in DOMAIN items
           /\ items[w.tok] = [url |-> w.url, expires |-> w.at + cacheTTL]

NoStaleFound ==
    \A p \in Procs :
        (pc[p] = "get_unlock" /\ res[p].ok) => gnow[p] <= item[p].expires

\* C3: concurrency safety.  No entry whose expiry has not passed is lost:
\* it stays in the store with its resource; and no get returns found for an
\* entry whose expiry has passed.
ConcurrencySafe == NoLiveEntryLost /\ NoStaleFound

UnknownTokenStep ==
    \A p \in Procs :
        ( /\ pc[p] \in {"get_lock", "get_check", "get_delete", "get_unlock"}
          /\ token[p] \notin IssuedTokens
          /\ pc'[p] # pc[p] )
        => /\ items' = items
           /\ pc'[p] \in {"get_unlock", "idle"}
           /\ pc'[p] = "get_unlock" => res'[p] = [url |-> <<>>, ok |-> FALSE]
           /\ pc'[p] = "idle" => fin'.res = [url |-> <<>>, ok |-> FALSE]

\* C4: unknown token.  A get of a token that no set has stored returns
\* ("", false), and none of its steps changes the store.
UnknownTokenNotFound == [][UnknownTokenStep]_vars

\* a get of a never-issued token has returned not-found from a store that
\* holds other entries
UnknownTokenLookedUp ==
    \E p \in Procs :
        /\ pc[p] = "get_unlock"
        /\ token[p] \notin IssuedTokens
        /\ res[p] = [url |-> <<>>, ok |-> FALSE]
        /\ DOMAIN items # {}

WriteOnceStep ==
    \A t \in DOMAIN items :
        /\ t \in DOMAIN items' => items'[t] = items[t]
        /\ t \notin DOMAIN items' =>
              \E p \in Procs : /\ pc[p] = "get_delete"
                               /\ token[p] = t
                               /\ gnow[p] > items[t].expires

\* C5: write-once.  No step changes the resource or the expiry stored under
\* a token; an entry only ever leaves the store, by a get that found it
\* expired.
WriteOnce == [][WriteOnceStep]_vars

GetCriticalStep ==
    \A p \in Procs :
        pc[p] \in {"get_check", "get_delete", "get_unlock"}
        => /\ mu = p
           /\ InCritical = {p}
           /\ pc'[p] = pc[p] => items' = items
           /\ (pc[p] = "get_check" /\ pc'[p] = "get_unlock")
                 => /\ items' = items
                    /\ res'[p].ok
           /\ (pc[p] = "get_delete" /\ pc'[p] # pc[p])
                 => token[p] \notin DOMAIN items'
           /\ (pc[p] = "get_unlock" /\ pc'[p] # pc[p])
                 => /\ items' = items
                    /\ (item[p].ok /\ ~res[p].ok)
                          => token[p] \notin DOMAIN items'

\* C6: get is one critical section.  While a get stands between its lookup
\* and its return it holds the mutex and no other goroutine is in a critical
\* section; steps of others leave the store alone; a get that found its
\* entry unexpired leaves the store unchanged; a get that found it expired
\* has removed the token when it returns.
GetIsAtomic == [][GetCriticalStep]_vars

\* a get that evicted an expired entry is about to return while another
\* goroutine waits for the mutex
EvictionWhileContended ==
    \E p \in Procs, q \in Procs :
        /\ pc[p] = "get_unlock"
        /\ item[p].ok
        /\ ~res[p].ok
        /\ token[p] \notin DOMAIN items
        /\ pc[q] \in {"set_lock", "get_lock"}

\* the invocation that just returned is a handlerInline that found a link
InlineResolved == fin.handler = "handlerInline" /\ fin.link # <<>>

\* C7: failed dispatch in the inline context.  If the resolver errs, or the
\* descriptor has neither a play URL nor images, or it has images and
\* BOT_USERNAME is empty, handlerInline has called the resolver once and done
\* nothing else: no answer, no cache set, no second attempt.
InlineFailureIsSilent ==
    ( /\ InlineResolved
      /\ \/ fin.rs.err
         \/ (fin.rs.Play = <<>> /\ Len(fin.rs.Images) = 0)
         \/ (Len(fin.rs.Images) > 0 /\ botUsername = <<>>) )
    => /\ fin.out = <<[op |-> "fetchTikTok", url |-> fin.link]>>
       /\ fin.token = <<>>

\* handlerInline gave up on an empty descriptor while the cache held an
\* entry
InlineGaveUp ==
    /\ InlineResolved
    /\ ~fin.rs.err
    /\ fin.rs.Play = <<>>
    /\ Len(fin.rs.Images) = 0
    /\ fin.out = <<[op |-> "fetchTikTok", url |-> fin.link]>>
    /\ DOMAIN items # {}

\* C8: SlideshowDeferred.  If the descriptor has an image and BOT_USERNAME
\* is set, handlerInline has made exactly three calls: the resolver, one
\* cache set of the link, and the answer whose button opens
\* https://t.me/<bot>?start=tt_<token> with the token that set returned;
\* nothing is fetched or composed.
SlideshowDeferred ==
    ( /\ InlineResolved
      /\ ~fin.rs.err
      /\ Len(fin.rs.Images) > 0
      /\ botUsername # <<>> )
    => /\ Len(fin.out) = 3
       /\ fin.out[1] = [op |-> "fetchTikTok", url |-> fin.link]
       /\ fin.out[2].op = "set"
       /\ fin.out[2].url = fin.link
       /\ \E w \in issued : w.tok = fin.out[2].token /\ w.url = fin.link
       /\ fin.out[3] =
            [op |-> "AnswerInlineQuery", result |-> "article",
             url |-> <<"h","t","t","p","s",":","/","/","t",".","m","e","/">>
                       \o botUsername \o <<"?","s","t","a","r","t","=">>
                       \o <<"t","t","_">> \o fin.out[2].token]

\* handlerInline answered with a deep link for a descriptor that carries
\* both images and a play URL
DeferredAnswered ==
    /\ InlineResolved
    /\ Len(fin.rs.Images) > 0
    /\ fin.rs.Play # <<>>
    /\ Len(fin.out) = 3
    /\ fin.out[3].op = "AnswerInlineQuery"
    /\ fin.out[3].result = "article"

\* C9: TokenNotFound.  When the token of a "/start tt_<token>" message is
\* absent from the cache, or its entry has expired, handleStartPayload has
\* sent the link-expired notice and nothing else, and has reported the
\* message as handled, so that handlerMessage does not look for a link.
TokenNotFound ==
    ( /\ ExercisedToken
      /\ \/ ~fin.item.ok
         \/ fin.gnow > fin.item.expires )
    => /\ fin.out = <<[op |-> "get", token |-> fin.token],
                      [op |-> "SendMessage", text |-> ExpiredText]>>
       /\ fin.handled

\* a "/start" message with an expired token, followed by a link, got the
\* notice
ExpiredTokenRefused ==
    /\ ExercisedToken
    /\ fin.item.ok
    /\ fin.gnow > fin.item.expires
    /\ Len(fin.out) = 2
    /\ fin.out[2].op = "SendMessage"

\* C10: deferred handoff.  For every token minted for link L, each
\* "/start tt_<token>" whose get reads the clock within the TTL of that
\* minting resolves and delivers L.
HandoffDeliversOriginal ==
    \A w \in issued :
        ( /\ ExercisedToken
          /\ fin.token = w.tok
          /\ fin.gnow <= w.at + cacheTTL )
        => /\ fin.res = [url |-> w.url, ok |-> TRUE]
           /\ Len(fin.out) >= 2
           /\ fin.out[2] = [op |-> "fetchTikTok", url |-> w.url]

\* the calls the returned handler made once it held a link: all of them for
\* handlerInline and for a message with a link, those after the cache lookup
\* for a "/start" message
Dispatched == IF ExercisedToken THEN Tail(fin.out) ELSE fin.out

\* C11: VideoReady.  When the descriptor has a play URL and no images, the
\* handler calls the resolver once and hands over a reference to the play
\* URL, and nothing else: handlerInline answers with a video result on that
\* URL, sendTikTok sends one message quoting it; no cache set, no download,
\* no composition.
VideoReady ==
    ( /\ fin.handler # "none"
      /\ fin.link # <<>>
      /\ ~fin.rs.err
      /\ fin.rs.Play # <<>>
      /\ Len(fin.rs.Images) = 0 )
    => /\ Len(Dispatched) = 2
       /\ Dispatched[1] = [op |-> "fetchTikTok", url |-> fin.link]
       /\ fin.handler = "handlerInline" =>
             /\ Dispatched[2] = [op |-> "AnswerInlineQuery",
                                 result |-> "video", url |-> fin.rs.Play]
             /\ fin.token = <<>>
       /\ fin.handler = "handlerMessage" =>
             Dispatched[2] =
                 [op |-> "SendMessage",
                  text |-> <<"[","s","r","c","]","(">> \o fin.rs.Play
                              \o <<")">>]

\* a "/start" message whose token was found delivered the play URL of a
\* video
VideoReferenced ==
    /\ ExercisedToken
    /\ fin.res.ok
    /\ fin.rs.Play # <<>>
    /\ Len(fin.rs.Images) = 0
    /\ Len(fin.out) = 3
    /\ fin.out[3].op = "SendMessage"

\* positions in the calls of the returned handler that deliver a slideshow,
\* and those that deliver a video
SlideshowCalls ==
    {i \in DOMAIN fin.out :
        \/ fin.out[i].op = "SendMediaGroup"
        \/ fin.out[i].op = "AnswerInlineQuery" /\ fin.out[i].result = "article"}
VideoCalls ==
    {i \in DOMAIN fin.out :
        \/ fin.out[i].op = "AnswerInlineQuery" /\ fin.out[i].result = "video"
        \/ fin.out[i].op = "SendMessage" /\ fin.out[i].text # ExpiredText}
ResolveCalls == {i \in DOMAIN fin.out : fin.out[i].op = "fetchTikTok"}

\* C12: variant exclusivity.  Whatever the descriptor holds, a handler
\* resolves its link once and takes one branch: it never delivers both a
\* slideshow and a video, answers an inline query at most once, sends at most
\* one video message, and delivers nothing when the resolver erred or the
\* descriptor is empty.
VariantExclusive ==
    fin.handler # "none"
    => /\ SlideshowCalls = {} \/ VideoCalls = {}
       /\ Cardinality(ResolveCalls) <= 1
       /\ Cardinality(VideoCalls) <= 1
       /\ fin.handler = "handlerInline" => Cardinality(SlideshowCalls) <= 1
       /\ (fin.rs.err \/ (fin.rs.Play = <<>> /\ Len(fin.rs.Images) = 0))
             => SlideshowCalls = {} /\ VideoCalls = {}
       /\ (SlideshowCalls # {}) => Len(fin.rs.Images) > 0
       /\ (VideoCalls # {}) => fin.rs.Play # <<>>

\* sendTikTok delivered the images of a descriptor that also has a play URL
BothPopulatedSentAsSlideshow ==
    /\ fin.handler = "handlerMessage"
    /\ fin.rs.Play # <<>>
    /\ Len(fin.rs.Images) > 0
    /\ SlideshowCalls # {}
    /\ VideoCalls = {}

\* the loop of sendPhotoGroups has run to its end
PhotoGroupsReturned == pgI >= Len(pgImages)

\* the locators of a media group, in order
MediaOf(g) == [k \in DOMAIN g.media |-> g.media[k].Media]

\* the locators of all groups sent from the j-th on, in order
RECURSIVE SentFrom(_)
SentFrom(j) ==
    IF j > Len(pgSent) THEN <<>> ELSE MediaOf(pgSent[j]) \o SentFrom(j + 1)

\* C13: batch captioning.  For a list of N images sendPhotoGroups has sent
\* ceil(N/10) media groups when it returns: each of 10 items except the
\* last, which holds the rest; put end to end they are the input list in
\* order; with a non-empty caption exactly the first item of each group
\* carries it; N = 0 sends nothing.
BatchCaptioning ==
    PhotoGroupsReturned
    => LET N == Len(pgImages)
           G == Len(pgSent)
       IN  /\ G = (N + 9) \div 10
           /\ N = 0 => pgSent = <<>>
           /\ \A j \in 1..G :
                 /\ pgSent[j].op = "SendMediaGroup"
                 /\ j < G => Len(pgSent[j].media) = 10
                 /\ j = G => Len(pgSent[j].media) =
                                 (IF N % 10 = 0 THEN 10 ELSE N % 10)
                 /\ pgCaption # <<>> =>
                       \A k \in DOMAIN pgSent[j].media :
                           pgSent[j].media[k].Caption =
                               (IF k = 1 THEN pgCaption ELSE <<>>)
           /\ SentFrom(1) = pgImages

\* 23 images with a caption have gone out in groups of 10, 10 and 3
TwentyThreeSent ==
    /\ PhotoGroupsReturned
    /\ Len(pgImages) = 23
    /\ pgCaption # <<>>
    /\ Len(pgSent) = 3
    /\ Len(pgSent[1].media) = 10
    /\ Len(pgSent[2].media) = 10
    /\ Len(pgSent[3].media) = 3

\* the barrier of makeVideo is behind the calling goroutine
PastBarrier == mvpc \in {"check", "start", "cmdwait", "returned"}

\* downloadToMem returned an error for the locator of goroutine i
FetchFailed(i) == fetches[i] \in {"refused", "cut"}

\* C14: audio-mandatory.  If the download of the audio failed, makeVideo
\* goes from the barrier straight to its return, with an error and no
\* bytes: it opens no pipe and starts no process, whatever became of the
\* images.
AudioMandatory ==
    (PastBarrier /\ mvpc # "check" /\ FetchFailed(0))
    => /\ mvpc = "returned"
       /\ ret.bytes.nil
       /\ ret.err = "failed to download audio"
       /\ ~imgPipe.open
       /\ ~audPipe.open
       /\ cmd.state = "none"

\* the bytes of buffer b were all read from locator u, in order from the
\* start of its body
ReadFrom(b, u) ==
    /\ ~b.nil
    /\ Len(b.bytes) <= 2
    /\ \A k \in DOMAIN b.bytes : b.bytes[k] = [src |-> u, part |-> k]

SlotsAfterBarrier ==
    PastBarrier
    => /\ DOMAIN imgBufs = DOMAIN mvImageURLs
       /\ \A i \in DOMAIN mvImageURLs :
             /\ imgBufs[i].nil \/ ReadFrom(imgBufs[i], mvImageURLs[i])
             /\ imgBufs[i].nil => FetchFailed(i)
             /\ fetches[i] = "ok" =>
                   /\ ~imgBufs[i].nil
                   /\ Len(imgBufs[i].bytes) = 2

OwnSlotOnly ==
    \A i \in DOMAIN task :
        (task[i] = "running" /\ task'[i] = "done")
        => /\ \A j \in DOMAIN imgBufs : j # i => imgBufs'[j] = imgBufs[j]
           /\ i # 0 => audBuf' = audBuf

BarrierSafe ==
    /\ mvpc \notin {"none", "entry"} =>
          /\ DOMAIN task = 0..Len(mvImageURLs)
          /\ \A i \in DOMAIN task : task[i] \in {"running", "done"}
          /\ wg = Cardinality({i \in DOMAIN task : task[i] = "running"})
    /\ (PastBarrier \/ imgPipe.open \/ audPipe.open \/ cmd.state # "none")
          => \A i \in DOMAIN task : task[i] = "done"

\* C16: fetch barrier.  makeVideo starts one download goroutine per image
\* and one for the audio; it does not look at a buffer, open a pipe or start
\* ffmpeg before all of them have ended; and if no download hangs, it gets
\* past the barrier.
FetchBarrier ==
    /\ []BarrierSafe
    /\ (mvpc = "wait" /\ \A i \in DOMAIN fetches : fetches[i] # "hang")
          ~> PastBarrier

\* the barrier is passed with the audio and two images downloaded
BarrierPassed ==
    /\ mvpc = "check"
    /\ Len(mvImageURLs) = 2
    /\ \A i \in 0..2 : task[i] = "done"
    /\ wg = 0

\* C17: frame-rate computation.  The frame rate is the number of images
\* divided by the duration, with 10 in place of a duration that is zero or
\* negative: 5 images give 1/2 for a duration of 10 and for every duration
\* <= 0.
FrameRateComputed ==
    mvpc = "rate"
    => LET n == Len(mvImageURLs)
           d == IF duration <= 0 THEN 10 ELSE duration
       IN  /\ frameRate[2] > 0
           /\ frameRate[1] * d = frameRate[2] * n
           /\ (n = 5 /\ (duration = 10 \/ duration <= 0))
                 => frameRate = <<1, 2>>

\* 5 images and a negative duration gave 1/2
HalfFromNegativeDuration ==
    /\ mvpc = "rate"
    /\ Len(mvImageURLs) = 5
    /\ duration < 0
    /\ frameRate = <<1, 2>>

\* makeVideo has returned after it opened the pipes
ReturnedWithPipes == mvpc = "returned" /\ imgPipe.open /\ audPipe.open

\* C18: writer completion.  Whenever makeVideo has returned after opening
\* the pipes - cmd.Start() failed, ffmpeg exited with a non-zero status or
\* with zero, also before it consumed its input - no writer goroutine is
\* still running and the write ends of both pipes are closed.
WritersJoined ==
    ReturnedWithPipes
    => /\ imgW.pc # "write"
       /\ audW.pc # "write"
       /\ imgPipe.wclosed
       /\ audPipe.wclosed

\* ffmpeg was started and is of the kind that reads both inputs to the end
ReadingEncoder == cmd.state # "none" /\ cmd.mode = "reads"

\* C19: end-of-stream liveness.  A writer that has finished has closed its
\* write end, whether or not a write failed; and once ffmpeg runs and keeps
\* reading both inputs, it sees the end of the image stream and of the audio
\* stream, and cmd.Wait() and makeVideo return.
EndOfStream ==
    /\ [](imgW.pc = "done" => imgPipe.wclosed)
    /\ [](audW.pc = "done" => audPipe.wclosed)
    /\ ReadingEncoder ~> (cmd.eofImg /\ cmd.eofAud)
    /\ ReadingEncoder ~> (mvpc = "returned")

\* ffmpeg read two images and the audio to their ends and makeVideo
\* returned
StreamsEnded ==
    /\ ReadingEncoder
    /\ cmd.eofImg
    /\ cmd.eofAud
    /\ Len(cmd.imgIn) = 4
    /\ Len(cmd.audIn) = 2
    /\ mvpc = "returned"

\* C20: start before write.  Nothing is in a pipe, nothing has been read
\* from one and no writer goroutine exists unless ffmpeg was started
\* successfully; when cmd.Start() fails makeVideo returns with both pipes
\* empty and no writer launched.
StartBeforeWrite ==
    /\ ( \/ imgW.pc # "none"
         \/ audW.pc # "none"
         \/ imgPipe.data # <<>>
         \/ audPipe.data # <<>> )
          => cmd.state \in {"running", "exited"}
    /\ ret.err = "start" =>
          /\ imgW.pc = "none"
          /\ audW.pc = "none"
          /\ imgPipe.data = <<>>
          /\ audPipe.data = <<>>
          /\ cmd.state = "none"

\* cmd.Start() failed with two images and the audio in memory, and
\* makeVideo returned without a writer
StartFailedNothingWritten ==
    /\ mvpc = "returned"
    /\ ret.err = "start"
    /\ Len(imgBufs) = 2
    /\ \A i \in 1..2 : ~imgBufs[i].nil
    /\ imgW.pc = "none"
    /\ imgPipe.open
    /\ imgPipe.data = <<>>

\* everything written to imgWriter so far: what ffmpeg has read from the
\* pipe and what is still in it
ImgStream == cmd.imgIn \o imgPipe.data

\* the buffers of imgBufs from slot i on that are not nil, end to end
RECURSIVE PresentFrom(_)
PresentFrom(i) ==
    IF i > Len(imgBufs) THEN <<>>
    ELSE (IF imgBufs[i].nil THEN <<>> ELSE imgBufs[i].bytes)
             \o PresentFrom(i + 1)

IsPrefix(a, b) == Len(a) <= Len(b) /\ a = SubSeq(b, 1, Len(a))

\* C21: partial-content policy.  With the audio downloaded, makeVideo goes
\* on to the pipes whichever image downloads failed; what has been written
\* to the image pipe is at every moment a prefix of the non-nil image
\* buffers put end to end in index order, nil ones passed over and none
\* repeated; and it is all of them when the writer has finished while the
\* pipe still had a reader.
PartialContent ==
    /\ (PastBarrier /\ mvpc # "check" /\ fetches[0] = "ok")
          => /\ imgPipe.open
             /\ audPipe.open
             /\ ret.err # "failed to download audio"
    /\ imgPipe.open => IsPrefix(ImgStream, PresentFrom(1))
    /\ (imgW.pc = "done" /\ (cmd.state = "running" \/ ~imgPipe.rclosed))
          => ImgStream = PresentFrom(1)

\* the first of two image downloads failed and the writer has written the
\* second image alone, whole
SecondImageAlone ==
    /\ Len(mvImageURLs) = 2
    /\ fetches[1] = "refused"
    /\ fetches[2] = "ok"
    /\ imgW.pc = "done"
    /\ cmd.state = "running"
    /\ Len(ImgStream) = 2
    /\ \A k \in 1..2 : ImgStream[k] = [src |-> mvImageURLs[2], part |-> k]

ResultOnReturn ==
    mvpc = "returned"
    => \/ /\ cmd.state = "exited"
          /\ cmd.code = 0
          /\ ret.err = "none"
          /\ ~ret.bytes.nil
          /\ ret.bytes.bytes = <<[video |-> cmd.imgIn, audio |-> cmd.audIn]>>
       \/ /\ ~(cmd.state = "exited" /\ cmd.code = 0)
          /\ ret.err # "none"
          /\ ret.bytes = [nil |-> TRUE, bytes |-> <<>>]
          /\ cmd.state = "exited" =>
                /\ ret.err = "ffmpeg"
                /\ ret.diag = <<[status |-> cmd.code,
                                 frames |-> Len(cmd.imgIn)]>>

NothingRetried ==
    /\ mvpc = "returned" => (mvpc' = "returned" /\ ret' = ret)
    /\ cmd.state # "none" => cmd'.state \in {cmd.state, "exited"}
    /\ cmd.state = "exited" => cmd' = cmd
    /\ \A i \in DOMAIN task : task[i] = "done" => task'[i] = "done"
    /\ imgPipe.open => imgPipe'.open
    /\ imgW.pc = "done" => imgW' = imgW
    /\ audW.pc = "done" => audW' = audW

\* C22: all or nothing.  makeVideo returns the output captured from ffmpeg
\* and no error when ffmpeg exited with status zero, and otherwise no bytes
\* and an error, which after a non-zero exit carries what ffmpeg wrote to its
\* standard error; and nothing is done a second time: no download, no
\* start, no writer, no return.
AllOrNothing == []ResultOnReturn /\ [][NothingRetried]_vars

\* ffmpeg exited with a non-zero status after it had read a frame, and
\* makeVideo returned the error without the output produced so far
FailedAfterFrames ==
    /\ mvpc = "returned"
    /\ cmd.state = "exited"
    /\ cmd.code # 0
    /\ Len(cmd.imgIn) > 0
    /\ ret.bytes.nil
    /\ ret.err = "ffmpeg"
    /\ ret.diag # <<>>

====
